---- MODULE Spec2Model ----
(***************************************************************************)
(* A model of github.com/soypat/pix: the Shape/Dims data model (pix.go),   *)
(* the argument validator ValidateProcessArgs (pix.go) and the generic     *)
(* row-oriented point filter PointFilter.Process (filters/point-filter.go) *)
(* with the invert and grayscale transforms.                               *)
(*                                                                         *)
(* Go values are modelled as follows.                                      *)
(*  - int: an Integer; every input is bounded far below the overflow range.*)
(*    Go's "/" truncates toward zero (GoDiv).                              *)
(*  - error: a string, "none" for nil.                                     *)
(*  - []byte: a slice record [ref, off, len, cap] into one of the arrays   *)
(*    of mem ("src": the image's backing array, "dst": the caller's        *)
(*    destination array, "row": the scratch row of Process); ref = "nil"   *)
(*    is the nil slice.  s[a:b] is legal iff 0 <= a <= b <= cap(s).        *)
(*  - *image.Rectangle: [nil, MinX, MinY, MaxX, MaxY], nil = TRUE for the  *)
(*    nil pointer.                                                         *)
(***************************************************************************)
EXTENDS Integers, Sequences, FiniteSets, TLC

\* ------------------------------------------------------------------ bounds
\* Largest width / height / stride / shape id tried on Dims.Validate.
MaxDim == 3
\* Largest image width and height given to ValidateProcessArgs and Process.
MaxW == 2
MaxH == 2
\* Largest row padding (Stride - SizeRow) of a source image.
MaxPad == 1
\* Most Init, Process and Cleanup calls made on one PointFilterGPU.
MaxGpuOps == 3
\* Largest value a Control is given, and most ChangeValue calls on it.
MaxVal == 2
MaxChanges == 2

\* ------------------------------------------------------------ Shape, Dims
shapeUndefined == 0
ShapeRGB888 == 1
ShapeRGBA8888 == 2
ShapeRGB565BE == 3
ShapeRGB555 == 4
ShapeRGB444BE == 5
ShapeGrayscale2bit == 6
ShapeMonochrome == 7

\* Go integer division: truncates toward zero.
GoDiv(a, b) ==
    IF (a >= 0) = (b > 0) THEN (IF a >= 0 THEN a ELSE -a) \div (IF b > 0 THEN b ELSE -b)
    ELSE -((IF a >= 0 THEN a ELSE -a) \div (IF b > 0 THEN b ELSE -b))

BitsPerPixel(sh) ==
    CASE sh = ShapeRGBA8888 -> 32
      [] sh = ShapeRGB888 -> 24
      [] sh = ShapeGrayscale2bit -> 2
      [] sh = ShapeMonochrome -> 1
      [] sh = ShapeRGB444BE -> 12
      [] sh = ShapeRGB555 -> 15
      [] sh = ShapeRGB565BE -> 16
      [] OTHER -> -1

MkDims(w, h, s, sh) == [Width |-> w, Height |-> h, Stride |-> s, Shape |-> sh]

\* pix.Dims{}
ZeroDims == MkDims(0, 0, 0, shapeUndefined)

\* Validate with the row size rounded down instead of up.
ValidateFloorStride(d) ==
    LET pixbits == BitsPerPixel(d.Shape) IN
    IF d.Height <= 0 \/ d.Width <= 0 THEN "empty image"
    ELSE IF pixbits < 1 THEN "bad pixel shape"
    ELSE IF GoDiv(d.Width * pixbits, 8) > d.Stride THEN "stride smaller than pixel row size"
    ELSE "none"

Validate(d) ==
    LET pixbits == BitsPerPixel(d.Shape) IN
    IF d.Height <= 0 \/ d.Width <= 0 THEN "empty image"
    ELSE IF pixbits < 1 THEN "bad pixel shape"
    ELSE IF GoDiv(d.Width * pixbits + 7, 8) > d.Stride THEN "stride smaller than pixel row size"
    ELSE "none"

SizeRow(d) == GoDiv(d.Width * BitsPerPixel(d.Shape) + 7, 8)

Size(d) ==
    IF d.Height = 0 \/ d.Width = 0 THEN 0
    ELSE (d.Height - 1) * d.Stride + SizeRow(d)

\* ------------------------------------------------- slices, images, ROIs
\* A []byte value: a window [off, off+len) of the array mem[ref], which may
\* be extended by reslicing up to off+cap.
MkSlice(ref, off, len, cap) == [ref |-> ref, off |-> off, len |-> len, cap |-> cap]

NilSlice == MkSlice("nil", 0, 0, 0)

\* s[a:b]; the caller checks SliceOK(s, a, b) first (Go panics otherwise).
SliceOK(s, a, b) == 0 <= a /\ a <= b /\ b <= s.cap

Reslice(s, a, b) == MkSlice(s.ref, s.off + a, b - a, s.cap - a)

\* An Image implementation, as seen through the interfaces of pix.go:
\*   dims : what the next Dims() call returns,
\*   next : what Dims() returns after that (equal to dims for an image
\*          whose geometry does not change),
\*   kind : "stream" (Image only), "bufnil" (ImageBuffered, Buffer() = nil),
\*          "buf" (ImageBuffered, Buffer() = the whole array mem.src),
\*   blen : len and cap of Buffer(); for a streamed image, the bytes it holds,
\*   fail : which ReadAt call of a Process call fails with an I/O error
\*          (1: the first; 0: none); -1: none fails, and a read that
\*          ends exactly at the end of the data returns io.EOF with all
\*          its bytes, as io.ReaderAt allows.
MkImage(d, nx, kind, blen, fail) == [dims |-> d, next |-> nx, kind |-> kind, blen |-> blen, fail |-> fail]

\* src.Dims(): the answer, and the image after answering.
DimsOf(src) == src.dims

AfterDims(src) == [src EXCEPT !.dims = src.next]

\* _, ok := src.(ImageBuffered)
IsBuffered(src) == src.kind # "stream"

\* buffered.Buffer()
Buffer(src) == IF src.kind = "buf" THEN MkSlice("src", 0, src.blen, src.blen) ELSE NilSlice

MkRect(x0, y0, x1, y1) == [nil |-> FALSE, MinX |-> x0, MinY |-> y0, MaxX |-> x1, MaxY |-> y1]

\* roi == nil
NilRect == [nil |-> TRUE, MinX |-> 0, MinY |-> 0, MaxX |-> 0, MaxY |-> 0]

\* image.Rectangle.Empty, Dx, Dy as called by ValidateProcessArgs and Process.
Empty(r) == r.MinX >= r.MaxX \/ r.MinY >= r.MaxY

Dx(r) == r.MaxX - r.MinX

Dy(r) == r.MaxY - r.MinY

\* ------------------------------------------------------ ValidateProcessArgs
VResult(dst, srcDims, err) == [dst |-> dst, srcDims |-> srcDims, err |-> err]

\* The ROI checks without the comparison of Max.Y with the height.
CheckROIWidthOnly(roi, srcDims) ==
    IF roi.MaxX < 0 \/ roi.MinX < 0 \/ roi.MinY < 0 \/ roi.MaxY < 0 THEN "negative ROI"
    ELSE IF roi.MaxX > srcDims.Width THEN "ROI exceeds image bounds"
    ELSE IF Empty(roi) THEN "empty ROI"
    ELSE "none"

\* The ROI checks of ValidateProcessArgs: "none" or the error.
CheckROI(roi, srcDims) ==
    IF roi.MaxX < 0 \/ roi.MinX < 0 \/ roi.MinY < 0 \/ roi.MaxY < 0 THEN "negative ROI"
    ELSE IF roi.MaxX > srcDims.Width \/ roi.MaxY > srcDims.Height THEN "ROI exceeds image bounds"
    ELSE IF Empty(roi) THEN "empty ROI"
    ELSE "none"

RequiredMinDstSize(dstShape, roi) ==
    IF ~roi.nil THEN dstShape.Stride * Dy(roi)
    ELSE dstShape.Stride * dstShape.Height

\* The dst == nil branch without the comparison of len(buf) with Size().
InPlaceDstAnyLength(dstShape, src, srcDims, roi) ==
    IF ~roi.nil THEN VResult(NilSlice, srcDims, "in-place operation does not support ROI")
    ELSE IF dstShape.Shape # srcDims.Shape
        THEN VResult(NilSlice, srcDims, "src must match filter output shape for in-place op")
    ELSE IF ~IsBuffered(src)
        THEN VResult(NilSlice, srcDims, "src does not implement ImageBuffered for in-place op")
    ELSE LET buf == Buffer(src) IN
        IF buf = NilSlice THEN VResult(NilSlice, srcDims, "src returned nil buffer on in-place op")
        ELSE VResult(buf, srcDims, "none")

\* The dst == nil branch: the destination taken from the source, or the error.
InPlaceDst(dstShape, src, srcDims, roi) ==
    IF ~roi.nil THEN VResult(NilSlice, srcDims, "in-place operation does not support ROI")
    ELSE IF dstShape.Shape # srcDims.Shape
        THEN VResult(NilSlice, srcDims, "src must match filter output shape for in-place op")
    ELSE IF ~IsBuffered(src)
        THEN VResult(NilSlice, srcDims, "src does not implement ImageBuffered for in-place op")
    ELSE LET buf == Buffer(src) IN
        IF buf = NilSlice THEN VResult(NilSlice, srcDims, "src returned nil buffer on in-place op")
        ELSE IF buf.len < Size(srcDims)
            THEN VResult(NilSlice, srcDims, "src ImageBuffered returned a buffer too small to represent complete image")
        ELSE VResult(buf, srcDims, "none")

\* The size check with <= in place of <.
CheckDstSizeInclusive(dst, srcDims, required) ==
    IF dst.len <= required
        THEN VResult(dst, srcDims, "destination buffer not large enough to store output")
    ELSE VResult(dst, srcDims, "none")

\* The final size check on the resolved destination.
CheckDstSize(dst, srcDims, required) ==
    IF dst.len < required
        THEN VResult(dst, srcDims, "destination buffer not large enough to store output")
    ELSE VResult(dst, srcDims, "none")

ValidateProcessArgs(dst, dstShape, src, roi) ==
    LET srcDims == DimsOf(src)
        roiErr == IF ~roi.nil THEN CheckROI(roi, srcDims) ELSE "none"
        required == RequiredMinDstSize(dstShape, roi)
        inplace == InPlaceDst(dstShape, src, srcDims, roi)
    IN  IF Validate(srcDims) # "none" THEN VResult(NilSlice, srcDims, Validate(srcDims))
        ELSE IF roiErr # "none" THEN VResult(NilSlice, srcDims, roiErr)
        ELSE IF dst = NilSlice
            THEN (IF inplace.err # "none" THEN inplace
                  ELSE CheckDstSize(inplace.dst, srcDims, required))
        ELSE CheckDstSize(dst, srcDims, required)

\* ------------------------------------------------------- memory, ReadAt
\* s[i] and s[i] = v on the array a slice points into.
Load(m, s, i) == m[s.ref][s.off + i + 1]

Store(m, s, i, v) == [m EXCEPT ![s.ref][s.off + i + 1] = v]

\* src.ReadAt(p, off), the nth ReadAt call of this Process call, by the
\* io.ReaderAt contract: it copies min(len(p), bytes left at off) bytes of
\* the image's data into p and returns an error whenever that is fewer
\* than len(p) (and may return io.EOF with a full read at the end of the
\* data); the read the image is set to fail copies nothing.
ReadAt(src, m, p, off, nth) ==
    LET avail == Len(m.src) - off
        n == IF avail <= 0 THEN 0 ELSE IF avail < p.len THEN avail ELSE p.len
    IN  IF src.fail = nth THEN [n |-> 0, err |-> "read failed", mem |-> m]
        ELSE IF off < 0 THEN [n |-> 0, err |-> "negative offset", mem |-> m]
        ELSE [n |-> n,
              err |-> IF n < p.len \/ (src.fail = -1 /\ off + n = Len(m.src)) THEN "EOF"
                      ELSE "none",
              mem |-> [m EXCEPT ![p.ref] =
                          [k \in 1..Len(@) |->
                              IF k - 1 - p.off >= 0 /\ k - 1 - p.off < n
                              THEN m.src[off + (k - 1 - p.off) + 1] ELSE @[k]]]]

\* ------------------------------------------------------------- transforms
GrayscaleLuminance == 0
GrayscaleAverage == 1
GrayscaleLightness == 2

\* A PointFilter value.
MkFilter(in, out, fn, mode) == [In |-> in, Out |-> out, Fn |-> fn, mode |-> mode]

NewInvertedPerPixel == MkFilter(ShapeRGB888, ShapeRGB888, "invert", 0)

NewGrayscalePerPixel(mode) == MkFilter(ShapeRGB888, ShapeRGB888, "grayscale", mode)

\* A caller's transform for any pair of byte-multiple shapes: output pixel k
\* repeats the bytes of input pixel k.
NewRepack(in, out) == MkFilter(in, out, "repack", 0)

\* A PointFilter whose Fn was never set.
NoTransform(in, out) == MkFilter(in, out, "nil", 0)

FnResult(m, ok) == [mem |-> m, ok |-> ok]

\* for i := 0; i < len(src); i++ { dst[i] = 255 - src[i] }
\* ok = FALSE: an index out of range.
RECURSIVE InvertLoop(_, _, _, _)
InvertLoop(m, dst, src, i) ==
    IF i >= src.len THEN FnResult(m, TRUE)
    ELSE IF i >= dst.len THEN FnResult(m, FALSE)
    ELSE InvertLoop(Store(m, dst, i, 255 - Load(m, src, i)), dst, src, i + 1)

Min3(a, b, c) == IF a <= b /\ a <= c THEN a ELSE IF b <= c THEN b ELSE c

Max3(a, b, c) == IF a >= b /\ a >= c THEN a ELSE IF b >= c THEN b ELSE c

\* The gray value with the luminance rounded to the nearest integer.
GrayRoundedLuminance(mode, r, g, b) ==
    CASE mode = GrayscaleAverage -> ((r + g + b) \div 3) % 256
      [] mode = GrayscaleLightness -> ((Min3(r, g, b) + Max3(r, g, b)) \div 2) % 256
      [] OTHER -> ((77 * r + 150 * g + 29 * b + 128) \div 256) % 256

\* The gray value of one pixel, as a uint8.
Gray(mode, r, g, b) ==
    CASE mode = GrayscaleAverage -> ((r + g + b) \div 3) % 256
      [] mode = GrayscaleLightness -> ((Min3(r, g, b) + Max3(r, g, b)) \div 2) % 256
      [] OTHER -> ((77 * r + 150 * g + 29 * b) \div 256) % 256

\* for i := 0; i < len(src); i += 3 { r, g, b := src[i], src[i+1], src[i+2]; ...
\*     dst[i], dst[i+1], dst[i+2] = gray, gray, gray }
RECURSIVE GrayLoop(_, _, _, _, _)
GrayLoop(m, dst, src, i, mode) ==
    IF i >= src.len THEN FnResult(m, TRUE)
    ELSE IF i + 2 >= src.len THEN FnResult(m, FALSE)
    ELSE LET gray == Gray(mode, Load(m, src, i), Load(m, src, i + 1), Load(m, src, i + 2))
             m1 == IF i < dst.len THEN Store(m, dst, i, gray) ELSE m
             m2 == IF i + 1 < dst.len THEN Store(m1, dst, i + 1, gray) ELSE m1
         IN  IF i + 2 >= dst.len THEN FnResult(m2, FALSE)
             ELSE GrayLoop(Store(m2, dst, i + 2, gray), dst, src, i + 3, mode)

RECURSIVE RepackLoop(_, _, _, _, _, _)
RepackLoop(m, dst, src, k, inB, outB) ==
    IF k * inB >= src.len THEN FnResult(m, TRUE)
    ELSE IF (k + 1) * inB > src.len \/ (k + 1) * outB > dst.len THEN FnResult(m, FALSE)
    ELSE RepackLoop(
            [m EXCEPT ![dst.ref] =
                [x \in 1..Len(@) |->
                    IF x - 1 - dst.off >= k * outB /\ x - 1 - dst.off < (k + 1) * outB
                    THEN Load(m, src, k * inB + ((x - 1 - dst.off - k * outB) % inB))
                    ELSE @[x]]],
            dst, src, k + 1, inB, outB)

\* f.Fn(dst, src)
Fn(f, m, dst, src) ==
    CASE f.Fn = "invert" -> InvertLoop(m, dst, src, 0)
      [] f.Fn = "grayscale" -> GrayLoop(m, dst, src, 0, f.mode)
      [] OTHER -> RepackLoop(m, dst, src, 0, GoDiv(BitsPerPixel(f.In) + 7, 8),
                             GoDiv(BitsPerPixel(f.Out) + 7, 8))

\* ------------------------------------------------------ PointFilter.Process
\* The local variables of Process.  `validated` is not a variable of the
\* code: it records the Dims that ValidateProcessArgs validated and
\* returned, which Process discards.
MkLoc(srcDims, validated, dstDims, dst, srcBuf, rowBuf, y, sx, sy, ex, ey, inB, outB, rowBytes) ==
    [srcDims |-> srcDims, validated |-> validated, dstDims |-> dstDims, dst |-> dst,
     srcBuf |-> srcBuf, rowBuf |-> rowBuf, y |-> y, startX |-> sx, startY |-> sy,
     endX |-> ex, endY |-> ey, inBytesPerPixel |-> inB, outBytesPerPixel |-> outB,
     outStride |-> dstDims.Stride, srcRowBytes |-> rowBytes]

IdleLoc ==
    MkLoc(ZeroDims, ZeroDims, ZeroDims, NilSlice, NilSlice, NilSlice, 0, 0, 0, 0, 0, 0, 0, 0)

\* Where a step of Process leaves it.
Frame(p, dims, err, l, m, lg) ==
    [pc |-> p, ret |-> [dims |-> dims, err |-> err], loc |-> l, mem |-> m, log |-> lg]

NoRet == [dims |-> ZeroDims, err |-> "none"]

\* make([]byte, n)
MakeRow(m, n) == [m EXCEPT !.row = [k \in 1..n |-> 0]]

\* dstDims with the two results of ShapeIO taken in the wrong order.
OutDimsInputShape(f, srcDims, roi) ==
    LET outBytesPerPixel == GoDiv(BitsPerPixel(f.Out) + 7, 8)
        outWidth == IF ~roi.nil THEN Dx(roi) ELSE srcDims.Width
        outHeight == IF ~roi.nil THEN Dy(roi) ELSE srcDims.Height
    IN  MkDims(outWidth, outHeight, outWidth * outBytesPerPixel, f.In)

\* dstDims: the output dimensions, from the ROI or the full image.
OutDims(f, srcDims, roi) ==
    LET outBytesPerPixel == GoDiv(BitsPerPixel(f.Out) + 7, 8)
        outWidth == IF ~roi.nil THEN Dx(roi) ELSE srcDims.Width
        outHeight == IF ~roi.nil THEN Dy(roi) ELSE srcDims.Height
    IN  MkDims(outWidth, outHeight, outWidth * outBytesPerPixel, f.Out)

ReadEvent(y, off, len, err) == [op |-> "ReadAt", y |-> y, off |-> off, len |-> len, err |-> err]

FnEvent(y, dst, src) == [op |-> "Fn", y |-> y, off |-> dst.off, len |-> src.len, err |-> "none"]

BufferEvent == [op |-> "Buffer", y |-> 0, off |-> 0, len |-> 0, err |-> "none"]

\* The Buffer() call ValidateProcessArgs makes: in its dst == nil branch, once
\* the Dims, the ROI and the shapes passed and src is an ImageBuffered.
BufferCalls(dst, dstShape, src, roi) ==
    IF /\ Validate(DimsOf(src)) = "none"
       /\ dst = NilSlice
       /\ roi.nil
       /\ dstShape.Shape = DimsOf(src).Shape
       /\ IsBuffered(src)
    THEN <<BufferEvent>> ELSE <<>>

\* Process with ValidateProcessArgs called before the shape comparison.
ProcessBeginValidateFirst(f, dst, src, roi, m) ==
    LET srcDims == DimsOf(src)
        inB == GoDiv(BitsPerPixel(f.In) + 7, 8)
        outB == GoDiv(BitsPerPixel(f.Out) + 7, 8)
        dstDims == OutDims(f, srcDims, roi)
        v == ValidateProcessArgs(dst, dstDims, AfterDims(src), roi)
        lgV == BufferCalls(dst, dstDims, AfterDims(src), roi)
        srcBuf == IF IsBuffered(src) THEN Buffer(src) ELSE NilSlice
        lgB == IF IsBuffered(src) THEN Append(lgV, BufferEvent) ELSE lgV
        srcRowBytes == SizeRow(srcDims)
        l == MkLoc(srcDims, v.srcDims, dstDims, v.dst, srcBuf,
                   MkSlice("row", 0, srcRowBytes, srcRowBytes),
                   IF ~roi.nil THEN roi.MinY ELSE 0,
                   IF ~roi.nil THEN roi.MinX ELSE 0,
                   IF ~roi.nil THEN roi.MinY ELSE 0,
                   IF ~roi.nil THEN roi.MaxX ELSE srcDims.Width,
                   IF ~roi.nil THEN roi.MaxY ELSE srcDims.Height,
                   inB, outB, srcRowBytes)
    IN  IF f.Fn = "nil" THEN Frame("done", ZeroDims, "nil PixelFunc", IdleLoc, m, <<>>)
        ELSE IF v.err # "none" THEN Frame("done", ZeroDims, v.err, IdleLoc, m, lgV)
        ELSE IF srcDims.Shape # f.In
            THEN Frame("done", ZeroDims, "pixel shape mismatch", IdleLoc, m, lgV)
        ELSE IF srcRowBytes < 0 THEN Frame("panic", ZeroDims, "none", l, m, lgB)
        ELSE Frame("loop", ZeroDims, "none", l, MakeRow(m, srcRowBytes), lgB)

\* Process up to the row loop.
ProcessBegin(f, dst, src, roi, m) ==
    LET srcDims == DimsOf(src)
        inB == GoDiv(BitsPerPixel(f.In) + 7, 8)
        outB == GoDiv(BitsPerPixel(f.Out) + 7, 8)
        dstDims == OutDims(f, srcDims, roi)
        v == ValidateProcessArgs(dst, dstDims, AfterDims(src), roi)
        lgV == BufferCalls(dst, dstDims, AfterDims(src), roi)
        srcBuf == IF IsBuffered(src) THEN Buffer(src) ELSE NilSlice
        lgB == IF IsBuffered(src) THEN Append(lgV, BufferEvent) ELSE lgV
        srcRowBytes == SizeRow(srcDims)
        l == MkLoc(srcDims, v.srcDims, dstDims, v.dst, srcBuf,
                   MkSlice("row", 0, srcRowBytes, srcRowBytes),
                   IF ~roi.nil THEN roi.MinY ELSE 0,
                   IF ~roi.nil THEN roi.MinX ELSE 0,
                   IF ~roi.nil THEN roi.MinY ELSE 0,
                   IF ~roi.nil THEN roi.MaxX ELSE srcDims.Width,
                   IF ~roi.nil THEN roi.MaxY ELSE srcDims.Height,
                   inB, outB, srcRowBytes)
    IN  IF f.Fn = "nil" THEN Frame("done", ZeroDims, "nil PixelFunc", IdleLoc, m, <<>>)
        ELSE IF srcDims.Shape # f.In
            THEN Frame("done", ZeroDims, "pixel shape mismatch", IdleLoc, m, <<>>)
        ELSE IF v.err # "none" THEN Frame("done", ZeroDims, v.err, IdleLoc, m, lgV)
        ELSE IF srcRowBytes < 0 THEN Frame("panic", ZeroDims, "none", l, m, lgB)
        ELSE Frame("loop", ZeroDims, "none", l, MakeRow(m, srcRowBytes), lgB)

NumReads(lg) == Cardinality({ k \in 1..Len(lg) : lg[k].op = "ReadAt" })

\* The row step with the source slice taken from the start of the row.
TransformRowFromRowStart(f, l, srcRow, m, lg) ==
    LET dstRowStart == (l.y - l.startY) * l.outStride
        srcStart == 0
        srcEnd == (l.endX - l.startX) * l.inBytesPerPixel
        d == Reslice(l.dst, dstRowStart, dstRowStart + l.outStride)
        s == Reslice(srcRow, srcStart, srcEnd)
        r == Fn(f, m, d, s)
    IN  IF ~SliceOK(l.dst, dstRowStart, dstRowStart + l.outStride)
            THEN Frame("panic", ZeroDims, "none", l, m, lg)
        ELSE IF ~SliceOK(srcRow, srcStart, srcEnd) THEN Frame("panic", ZeroDims, "none", l, m, lg)
        ELSE IF ~r.ok THEN Frame("panic", ZeroDims, "none", l, r.mem, Append(lg, FnEvent(l.y, d, s)))
        ELSE Frame("loop", ZeroDims, "none", [l EXCEPT !.y = l.y + 1], r.mem,
                   Append(lg, FnEvent(l.y, d, s)))

\* The row step with the destination row placed at the source row's number.
TransformRowAtSourceRow(f, l, srcRow, m, lg) ==
    LET dstRowStart == l.y * l.outStride
        srcStart == l.startX * l.inBytesPerPixel
        srcEnd == l.endX * l.inBytesPerPixel
        d == Reslice(l.dst, dstRowStart, dstRowStart + l.outStride)
        s == Reslice(srcRow, srcStart, srcEnd)
        r == Fn(f, m, d, s)
    IN  IF ~SliceOK(l.dst, dstRowStart, dstRowStart + l.outStride)
            THEN Frame("panic", ZeroDims, "none", l, m, lg)
        ELSE IF ~SliceOK(srcRow, srcStart, srcEnd) THEN Frame("panic", ZeroDims, "none", l, m, lg)
        ELSE IF ~r.ok THEN Frame("panic", ZeroDims, "none", l, r.mem, Append(lg, FnEvent(l.y, d, s)))
        ELSE Frame("loop", ZeroDims, "none", [l EXCEPT !.y = l.y + 1], r.mem,
                   Append(lg, FnEvent(l.y, d, s)))

\* The slicing of dst and of the source row, and the call of Fn, for row l.y.
TransformRow(f, l, srcRow, m, lg) ==
    LET dstRowStart == (l.y - l.startY) * l.outStride
        srcStart == l.startX * l.inBytesPerPixel
        srcEnd == l.endX * l.inBytesPerPixel
        d == Reslice(l.dst, dstRowStart, dstRowStart + l.outStride)
        s == Reslice(srcRow, srcStart, srcEnd)
        r == Fn(f, m, d, s)
    IN  IF ~SliceOK(l.dst, dstRowStart, dstRowStart + l.outStride)
            THEN Frame("panic", ZeroDims, "none", l, m, lg)
        ELSE IF ~SliceOK(srcRow, srcStart, srcEnd) THEN Frame("panic", ZeroDims, "none", l, m, lg)
        ELSE IF ~r.ok THEN Frame("panic", ZeroDims, "none", l, r.mem, Append(lg, FnEvent(l.y, d, s)))
        ELSE Frame("loop", ZeroDims, "none", [l EXCEPT !.y = l.y + 1], r.mem,
                   Append(lg, FnEvent(l.y, d, s)))

\* The loop body without the return on a ReadAt error.
ProcessRowIgnoringReadError(f, src, l, m, lg) ==
    LET srcRowStart == l.y * l.srcDims.Stride
        rd == ReadAt(src, m, l.rowBuf, srcRowStart, NumReads(lg) + 1)
        lg1 == Append(lg, ReadEvent(l.y, srcRowStart, l.rowBuf.len, rd.err))
    IN  IF l.srcBuf # NilSlice
        THEN IF ~SliceOK(l.srcBuf, srcRowStart, srcRowStart + l.srcRowBytes)
             THEN Frame("panic", ZeroDims, "none", l, m, lg)
             ELSE TransformRow(f, l, Reslice(l.srcBuf, srcRowStart, srcRowStart + l.srcRowBytes),
                               m, lg)
        ELSE TransformRow(f, l, l.rowBuf, rd.mem, lg1)

\* One iteration of the row loop, for row l.y < l.endY.
ProcessRow(f, src, l, m, lg) ==
    LET srcRowStart == l.y * l.srcDims.Stride
        rd == ReadAt(src, m, l.rowBuf, srcRowStart, NumReads(lg) + 1)
        lg1 == Append(lg, ReadEvent(l.y, srcRowStart, l.rowBuf.len, rd.err))
    IN  IF l.srcBuf # NilSlice
        THEN IF ~SliceOK(l.srcBuf, srcRowStart, srcRowStart + l.srcRowBytes)
             THEN Frame("panic", ZeroDims, "none", l, m, lg)
             ELSE TransformRow(f, l, Reslice(l.srcBuf, srcRowStart, srcRowStart + l.srcRowBytes),
                               m, lg)
        ELSE IF rd.err # "none" THEN Frame("done", ZeroDims, rd.err, l, rd.mem, lg1)
        ELSE TransformRow(f, l, l.rowBuf, rd.mem, lg1)

\* ------------------------------------------- the GPU shader's arithmetic
\* The base shader (point-filter-gpu.wgsl) computes on f32 values.  Here an
\* f32 is the exact number m * 2^(-e), with e >= 24; every operation rounds
\* its exact result to the nearest f32 (ties to even), as WGSL requires of
\* subtraction and multiplication.  WGSL lets a division miss the exact
\* quotient by a few units in the last place: `dev` is how many units the
\* device's quotient lies from the correctly rounded one.
RECURSIVE Pow2(_)
Pow2(n) == IF n <= 0 THEN 1 ELSE 2 * Pow2(n - 1)

RECURSIVE Log2(_)
Log2(t) == IF t <= 1 THEN 0 ELSE 1 + Log2(t \div 2)

F32(m, e) == [m |-> m, e |-> e]

\* Binary long division of v by 255 until the quotient has 24 bits
\* (8388608 = 2^23, 16777216 = 2^24).
RECURSIVE DivBits(_, _, _)
DivBits(q, r, e) ==
    IF q >= 8388608 THEN [q |-> q, r |-> r, e |-> e]
    ELSE DivBits(2 * q + (IF 2 * r >= 255 THEN 1 ELSE 0), (2 * r) % 255, e + 1)

\* One channel of unpack: f32(v) / 255.0 for the byte v.
unpack(v, dev) ==
    LET d == DivBits(v \div 255, v % 255, 0)
        m == d.q + (IF 2 * d.r > 255 THEN 1 ELSE 0)
    IN  IF v = 0 THEN F32(0, 24)
        ELSE IF d.e = 23 THEN F32(2 * m + (IF dev > 0 THEN 2 * dev ELSE dev), 24)
        ELSE F32(m + dev, d.e)

\* 1.0 - c for one channel.
OneMinus(c) ==
    LET k == c.e - 24
        fl == c.m \div Pow2(k)
        rem == c.m % Pow2(k)
        half == Pow2(k - 1)
    IN  IF k = 0 THEN F32(16777216 - c.m, 24)
        ELSE IF rem = 0 \/ rem < half THEN F32(16777216 - fl, 24)
        ELSE IF rem > half THEN F32(16777216 - fl - 1, 24)
        ELSE F32(16777216 - fl - (fl % 2), 24)

\* One channel of pack: u32(clamp(c * 255.0, 0.0, 255.0)); the conversion
\* to u32 truncates.  255 * c.m is computed in two 12-bit halves.
pack(c) ==
    LET nh == c.m \div 4096
        nl == c.m % 4096
        h == 255 * nh + ((255 * nl) \div 4096)
        l == (255 * nl) % 4096
        t == h \div Pow2(c.e - 12)
        rh == h % Pow2(c.e - 12)
        x2 == (IF t = 0 THEN -1 ELSE Log2(t)) + c.e - 24
        d == Pow2(x2)
        up == IF x2 < 0 THEN FALSE
              ELSE IF d % 4096 = 0 THEN rh >= Pow2(c.e - 12) - (d \div 4096)
              ELSE rh = Pow2(c.e - 12) - 1 /\ l >= 4096 - d
        z == IF up THEN t + 1 ELSE t
    IN  IF c.m <= 0 THEN 0 ELSE IF z >= 255 THEN 255 ELSE z

\* invertTransform on byte k (1-based) of a pixel array: R, G and B become
\* 1.0 - c, alpha stays c.
invertTransform(v, k, dev) ==
    IF (k - 1) % 4 = 3 THEN pack(unpack(v, dev)) ELSE pack(OneMinus(unpack(v, dev)))

\* The compute pass over the n pixels of the input buffer.
Shader(Pix, n, dev) ==
    [k \in 1..Len(Pix) |-> IF k <= 4 * n THEN invertTransform(Pix[k], k, dev) ELSE 0]

\* ---------------------------------------------------------- PointFilterGPU
\* A *wgpu.Buffer field: nil, or a live buffer of `size` bytes.
NilBuffer == [nil |-> TRUE, size |-> 0]

CreateBuffer(size) == [nil |-> FALSE, size |-> size]

\* image.NewRGBA(image.Rect(0, 0, w, h))
NewRGBA(w, h) == [w |-> w, h |-> h, Pix |-> [k \in 1..(4 * w * h) |-> 0]]

\* The zero PointFilterGPU on a device; outputImage 0 is the nil pointer,
\* any other value the place of the image on the heap.
NewPointFilterGPU(dev) ==
    [inited |-> FALSE, inputBuffer |-> NilBuffer, outputBuffer |-> NilBuffer,
     width |-> 0, height |-> 0, outputImage |-> 0, dev |-> dev]

releaseImageBuffers(g) == [g EXCEPT !.inputBuffer = NilBuffer, !.outputBuffer = NilBuffer]

GResult(g, hp, err) == [g |-> g, heap |-> hp, err |-> err]

\* fail: the device call that returns an error in this Process call.
ensureBuffers(g, hp, w, h, fail) ==
    LET g1 == releaseImageBuffers(g)
        size == w * h * 4
    IN  IF w = g.width /\ h = g.height THEN GResult(g, hp, "none")
        ELSE IF fail = "input buffer" THEN GResult(g1, hp, "input buffer")
        ELSE IF fail = "output buffer"
            THEN GResult([g1 EXCEPT !.inputBuffer = CreateBuffer(size)], hp, "output buffer")
        ELSE GResult([g1 EXCEPT !.inputBuffer = CreateBuffer(size),
                                !.outputBuffer = CreateBuffer(size),
                                !.outputImage = Len(hp) + 1,
                                !.width = w, !.height = h],
                     Append(hp, NewRGBA(w, h)), "none")

\* What one Process call did: its argument and the argument's pixels, whether
\* it got past ensureBuffers to the upload and what the filter held then,
\* whether it aborted there (a nil or wrongly sized buffer or a nil output
\* image handed to the device), the error and image returned and the
\* returned image's pixels.
GCall(id, img, past, g, abort, err, ret, pix) ==
    [in |-> id, inPix |-> img.Pix, w |-> img.w, h |-> img.h, past |-> past,
     inputBuffer |-> g.inputBuffer, outputBuffer |-> g.outputBuffer,
     outputImage |-> g.outputImage, abort |-> abort, err |-> err, ret |-> ret, pix |-> pix]

GpuProcess(g, hp, id, fail) ==
    LET img == hp[id]
        e == ensureBuffers(g, hp, img.w, img.h, fail)
        size == img.w * img.h * 4
        held == /\ ~e.g.inputBuffer.nil /\ e.g.inputBuffer.size = size
                /\ ~e.g.outputBuffer.nil /\ e.g.outputBuffer.size = size
                /\ e.g.outputImage # 0
        out == Shader(img.Pix, img.w * img.h, g.dev)
    IN  IF ~g.inited
            THEN [g |-> g, heap |-> hp,
                  call |-> GCall(id, img, FALSE, g, FALSE, "filter not initialized", 0, <<>>)]
        ELSE IF e.err # "none"
            THEN [g |-> e.g, heap |-> e.heap,
                  call |-> GCall(id, img, FALSE, e.g, FALSE, e.err, 0, <<>>)]
        ELSE IF ~held
            THEN [g |-> e.g, heap |-> e.heap,
                  call |-> GCall(id, img, TRUE, e.g, TRUE, "none", 0, <<>>)]
        ELSE IF fail \in {"dispatch", "readback"}
            THEN [g |-> e.g, heap |-> e.heap,
                  call |-> GCall(id, img, TRUE, e.g, FALSE, fail, 0, <<>>)]
        ELSE [g |-> e.g, heap |-> [e.heap EXCEPT ![e.g.outputImage].Pix = out],
              call |-> GCall(id, img, TRUE, e.g, FALSE, "none", e.g.outputImage, out)]

\* Init: ok = FALSE when the device refuses the shader, pipeline or uniform buffer.
GpuInit(g, ok) == IF ok THEN [g EXCEPT !.inited = TRUE] ELSE g

Cleanup(g) == [releaseImageBuffers(g) EXCEPT !.inited = FALSE]

\* ----------------------------------------------------------------- Controls
\* A ControlOrdered[int] or ControlEnum[T] (kind "ordered" / "enum").
MkControl(kind, value, min, max, valid) ==
    [kind |-> kind, Value |-> value, Min |-> min, Max |-> max, ValidValues |-> valid]

\* A value of type any: `typed` says whether it holds a T.
AnyValue(typed, v) == [typed |-> typed, v |-> v]

ActualValue(c) == c.Value

CResult(c, err, called) == [c |-> c, err |-> err, called |-> called]

\* ChangeValue with the value stored before OnChange is asked.
ChangeValueOrderedStoreFirst(co, newValue, onChangeErr) ==
    IF ~newValue.typed THEN CResult(co, "new value not of type", FALSE)
    ELSE IF newValue.v < co.Min \/ newValue.v > co.Max
        THEN CResult(co, "new value exceeds limits", FALSE)
    ELSE CResult([co EXCEPT !.Value = newValue.v], onChangeErr, TRUE)

\* ControlOrdered.ChangeValue; onChangeErr is what OnChange returns when it
\* is called.
ChangeValueOrdered(co, newValue, onChangeErr) ==
    IF ~newValue.typed THEN CResult(co, "new value not of type", FALSE)
    ELSE IF newValue.v < co.Min \/ newValue.v > co.Max
        THEN CResult(co, "new value exceeds limits", FALSE)
    ELSE IF onChangeErr = "none" THEN CResult([co EXCEPT !.Value = newValue.v], "none", TRUE)
    ELSE CResult(co, onChangeErr, TRUE)

\* slices.Contains(ce.ValidValues, v)
Contains(valid, v) == \E i \in 1..Len(valid) : valid[i] = v

\* ControlEnum.ChangeValue
ChangeValueEnum(ce, newValue, onChangeErr) ==
    IF ~newValue.typed THEN CResult(ce, "new value not of type", FALSE)
    ELSE IF ~Contains(ce.ValidValues, newValue.v) THEN CResult(ce, "value not valid", FALSE)
    ELSE IF onChangeErr = "none" THEN CResult([ce EXCEPT !.Value = newValue.v], "none", TRUE)
    ELSE CResult(ce, onChangeErr, TRUE)

\* Control.ChangeValue, by the control's dynamic type.
ChangeValue(c, newValue, onChangeErr) ==
    IF c.kind = "ordered" THEN ChangeValueOrdered(c, newValue, onChangeErr)
    ELSE ChangeValueEnum(c, newValue, onChangeErr)

\* ------------------------------------------------------------------ state
VARIABLES
    vd,     \* a direct Dims.Validate call: [d, called, err]
    va,     \* a direct ValidateProcessArgs call: [dst, dstShape, src, roi, called, out]
    pa,     \* the arguments of the Process call: [f, dst, src, roi]
    mem,    \* the byte arrays: [src, dst, row]
    pc,     \* where Process is: "idle", "loop", "done", "panic"
    loc,    \* the local variables of Process
    ret,    \* what Process returned: [dims, err]
    log,    \* the Buffer, ReadAt and Fn calls Process made, in order
    prev,   \* the outcome of the first of two Process calls
    phase,  \* 1 during the first Process call, 2 or 3 during the second
    gf,     \* the PointFilterGPU
    heap,   \* the image.RGBA objects: the caller's and those the filter made
    gcalls, \* the last two PointFilterGPU.Process calls, newest last
    results,\* the images PointFilterGPU.Process returned: [id, pix at return]
    gn,     \* the number of Init, Process and Cleanup calls so far
    ctl     \* a Control and its ChangeValue calls: [c, init, ok, n, last]

procVars == <<pa, mem, pc, loc, ret, log, prev, phase>>

gpuVars == <<gf, heap, gcalls, results, gn>>

vars == <<vd, va, pa, mem, pc, loc, ret, log, prev, phase, gf, heap, gcalls, results, gn, ctl>>

\* Values of the variables a specification does not use.
IdleVd == [d |-> ZeroDims, called |-> FALSE, err |-> "none"]

IdleImage == MkImage(ZeroDims, ZeroDims, "stream", 0, 0)

IdleVa ==
    [dst |-> NilSlice, dstShape |-> ZeroDims, src |-> IdleImage, roi |-> NilRect,
     called |-> FALSE, out |-> VResult(NilSlice, ZeroDims, "none")]

IdleGpu ==
    /\ gf = NewPointFilterGPU(0)
    /\ heap = <<>>
    /\ gcalls = <<>>
    /\ results = <<>>
    /\ gn = 0

NoChange ==
    [arg |-> AnyValue(FALSE, 0), err |-> "none", called |-> FALSE, before |-> 0,
     onChangeErr |-> "none"]

IdleCtl ==
    [c |-> MkControl("ordered", 0, 0, 0, <<>>), init |-> 0, ok |-> <<>>, n |-> 0, last |-> NoChange]

\* ------------------------------------------------- Dims.Validate, directly
ValidateInputs ==
    { MkDims(w, h, s, sh) : w \in -1..MaxDim, h \in -1..MaxDim,
                            s \in -1..(4 * MaxDim + 1), sh \in -1..(ShapeMonochrome + 1) }

CallValidate ==
    /\ ~vd.called
    /\ vd' = [vd EXCEPT !.called = TRUE, !.err = Validate(vd.d)]
    /\ UNCHANGED <<gpuVars, ctl, va, pa, mem, pc, loc, ret, log, prev, phase>>

\* ------------------------------------------- ValidateProcessArgs, directly
\* A source image of w x h RGB888 pixels with `pad` bytes of row padding
\* (pad = -1: a stride one byte too small, which Validate rejects).
SrcDims(w, h, pad, sh) == MkDims(w, h, GoDiv(w * BitsPerPixel(sh) + 7, 8) + pad, sh)

MkArgs(dst, dstShape, src, roi) ==
    [dst |-> dst, dstShape |-> dstShape, src |-> src, roi |-> roi,
     called |-> FALSE, out |-> VResult(NilSlice, ZeroDims, "none")]

\* a caller's destination of n bytes
DstOf(n) == MkSlice("dst", 0, n, n)

\* Every rectangle with coordinates from one below zero to one beyond the image.
AllRects(w, h) ==
    { MkRect(x0, y0, x1, y1) : x0 \in -1..(w + 1), x1 \in -1..(w + 1),
                               y0 \in -1..(h + 1), y1 \in -1..(h + 1) }

\* The kinds of source, each with the bytes it holds beyond Size().
SourceKinds == {<<"stream", 0>>, <<"bufnil", 0>>, <<"buf", -1>>, <<"buf", 0>>, <<"buf", 1>>}

\* ROI family: valid buffered sources, every rectangle around them.
ArgsRoiFamily(a) ==
    \E w \in 1..MaxW, h \in 1..MaxH :
    \E dst \in {NilSlice, DstOf(3 * w * h)}, st \in {0, 3 * w}, roi \in AllRects(w, h) :
        a = MkArgs(dst, MkDims(w, h, st, ShapeRGB888),
                   MkImage(SrcDims(w, h, 0, ShapeRGB888), SrcDims(w, h, 0, ShapeRGB888),
                           "buf", 3 * w * h, 0), roi)

\* In-place / size family: every kind of source, buffers around Size(),
\* destination shapes and lengths around the required size.
ArgsDstFamily(a) ==
    \E w \in 1..MaxW, h \in 1..MaxH, pad \in -1..MaxPad :
    \E dst \in {NilSlice} \cup { DstOf(n) : n \in {0, 1, 3 * w * h - 1, 3 * w * h} } :
    \E dh \in {-1 - h, 0, 1}, st \in {-1, 0, 1, 3 * w}, sh \in {ShapeRGB888, ShapeRGBA8888} :
    \E kl \in SourceKinds :
    \E roi \in {NilRect, MkRect(0, 0, w, h), MkRect(0, 0, 1, 1), MkRect(0, 0, w + 1, 1)} :
        a = MkArgs(dst, MkDims(w, h + dh, st, sh),
                   MkImage(SrcDims(w, h, pad, ShapeRGB888), SrcDims(w, h, pad, ShapeRGB888),
                           kl[1], Size(SrcDims(w, h, pad, ShapeRGB888)) + kl[2], 0), roi)

CallValidateProcessArgs ==
    /\ ~va.called
    /\ va' = [va EXCEPT !.called = TRUE,
                        !.out = ValidateProcessArgs(va.dst, va.dstShape, va.src, va.roi)]
    /\ UNCHANGED <<gpuVars, ctl, vd, pa, mem, pc, loc, ret, log, prev, phase>>

\* ------------------------------------------------- Process, its callers
MkCall(f, dst, src, roi) == [f |-> f, dst |-> dst, src |-> src, roi |-> roi]

\* The image's bytes: every position holds a different value.
SrcBytes(n) == [k \in 1..n |-> (11 + 37 * (k - 1)) % 256]

\* The arrays before the first call: the image's bytes, a destination
\* filled with a value no transform of the image's bytes produces at that
\* place, and no scratch row yet.
InitMem(a) ==
    [src |-> SrcBytes(a.src.blen), dst |-> [k \in 1..a.dst.len |-> 170], row |-> <<>>]

NoPrev == [ret |-> NoRet, roi |-> NilRect, dst |-> <<>>, src |-> <<>>, srcDims |-> ZeroDims]

\* An image whose Dims() always returns d.
StableImage(d, kind, blen, fail) == MkImage(d, d, kind, blen, fail)

\* Every non-empty rectangle inside a w x h image.
ValidRects(w, h) ==
    { r \in { MkRect(x0, y0, x1, y1) : x0 \in 0..(w - 1), x1 \in 1..w,
                                        y0 \in 0..(h - 1), y1 \in 1..h } :
        r.MinX < r.MaxX /\ r.MinY < r.MaxY }

\* ROIs that ValidateProcessArgs rejects: negative, beyond the image, empty.
BadRects(w, h) == {MkRect(-1, 0, 1, 1), MkRect(0, 0, w + 1, h), MkRect(0, 0, w, h + 1), MkRect(1, 0, 1, 1)}

BytesOf(sh) == GoDiv(BitsPerPixel(sh) + 7, 8)

\* The filters given to Process: the repository's invert and grayscale
\* filters and callers' transforms between other byte-multiple shapes.
Filters ==
    {NewInvertedPerPixel, NewGrayscalePerPixel(GrayscaleLuminance),
     NewRepack(ShapeRGBA8888, ShapeRGB565BE), NewRepack(ShapeRGB565BE, ShapeRGBA8888)}

\* What a source is: its kind, the bytes it holds beyond Size(), the read that fails.
Sources ==
    {<<"stream", 0, 0>>, <<"stream", 0, 1>>, <<"stream", 0, 2>>, <<"stream", -1, 0>>,
     <<"stream", 0, -1>>,
     <<"bufnil", 0, 0>>, <<"buf", 0, 0>>, <<"buf", -1, 0>>}

\* Sound geometry: every filter, source kind, ROI and destination length.
ProcValidFamily(a) ==
    \E f \in Filters, w \in 1..MaxW, h \in 1..MaxH, pad \in 0..MaxPad, k \in Sources :
    \E roi \in {NilRect} \cup ValidRects(w, h) \cup BadRects(w, h) :
    \E short \in 0..1, inplace \in BOOLEAN :
        LET d == SrcDims(w, h, pad, f.In)
            need == IF roi.nil THEN w * h * BytesOf(f.Out)
                    ELSE Dx(roi) * Dy(roi) * BytesOf(f.Out)
        IN  /\ need - short >= 0
            /\ inplace => short = 0
            /\ a = MkCall(f, IF inplace THEN NilSlice ELSE DstOf(need - short),
                          StableImage(d, k[1], Size(d) + k[2], k[3]), roi)

\* Unsound calls: no transform, a source of another shape, bad geometry.
ProcBadFamily(a) ==
    \E f \in Filters \cup {NoTransform(ShapeRGB888, ShapeRGB888)} :
    \E sh \in {f.In, ShapeRGB555}, w \in 0..MaxW, h \in 0..MaxH, pad \in -1..0 :
    \E kind \in {"stream", "buf"}, inplace \in BOOLEAN :
    \E roi \in {NilRect, MkRect(0, 0, 1, 1), MkRect(-1, 0, 1, 1)} :
        LET d == SrcDims(w, h, pad, sh) IN
        /\ (f.Fn = "nil" \/ sh # f.In \/ Validate(d) # "none")
        /\ a = MkCall(f, IF inplace THEN NilSlice ELSE DstOf(w * h * BytesOf(f.Out)),
                      StableImage(d, kind, IF Size(d) > 0 THEN Size(d) ELSE 0, 0), roi)

\* An image whose Dims() answers change between two calls: Process asks
\* once itself and ValidateProcessArgs asks again.
ProcUnstableFamily(a) ==
    \E w1 \in 1..MaxW, h1 \in 1..MaxH, w2 \in 1..MaxW, h2 \in 1..MaxH :
    \E kind \in {"stream", "buf"}, pad \in -1..0 :
        LET d1 == SrcDims(w1, h1, pad, ShapeRGB888)
            d2 == SrcDims(w2, h2, 0, ShapeRGB888)
        IN  /\ d1 # d2
            /\ a = MkCall(NewInvertedPerPixel, DstOf(3 * MaxW * MaxH),
                          MkImage(d1, d2, kind, Size(d2), 0), NilRect)

\* A destination sized for the whole output image plus one byte, whatever
\* the ROI: more room than the call needs.
ProcFullDstFamily(a) ==
    \E f \in Filters, w \in 1..MaxW, h \in 1..MaxH, pad \in 0..MaxPad :
    \E kind \in {"stream", "buf"}, roi \in {NilRect} \cup ValidRects(w, h) :
        LET d == SrcDims(w, h, pad, f.In) IN
        a = MkCall(f, DstOf(w * h * BytesOf(f.Out) + 1), StableImage(d, kind, Size(d), 0), roi)

Begin ==
    /\ pc = "idle"
    /\ LET fr == ProcessBegin(pa.f, pa.dst, pa.src, pa.roi, mem) IN
        /\ pc' = fr.pc
        /\ ret' = fr.ret
        /\ loc' = fr.loc
        /\ mem' = fr.mem
        /\ log' = fr.log
    /\ UNCHANGED <<gpuVars, ctl, vd, va, pa, prev, phase>>

Row ==
    /\ pc = "loop"
    /\ loc.y < loc.endY
    /\ LET fr == ProcessRow(pa.f, pa.src, loc, mem, log) IN
        /\ pc' = fr.pc
        /\ ret' = fr.ret
        /\ loc' = fr.loc
        /\ mem' = fr.mem
        /\ log' = fr.log
    /\ UNCHANGED <<gpuVars, ctl, vd, va, pa, prev, phase>>

\* return dstDims, nil
Finish ==
    /\ pc = "loop"
    /\ loc.y >= loc.endY
    /\ pc' = "done"
    /\ ret' = [dims |-> loc.dstDims, err |-> "none"]
    /\ UNCHANGED <<gpuVars, ctl, vd, va, pa, mem, loc, log, prev, phase>>

\* Two calls on one image: the whole image first, into a destination of
\* its size or in place, by every filter and kind of source.
PairFamily(a) ==
    \E f \in Filters, w \in 1..MaxW, h \in 1..MaxH, pad \in 0..MaxPad :
    \E k \in {<<"stream", 0>>, <<"bufnil", 0>>, <<"buf", 0>>, <<"buf", 1>>}, inplace \in BOOLEAN :
        LET d == SrcDims(w, h, pad, f.In) IN
        a = MkCall(f, IF inplace THEN NilSlice ELSE DstOf(w * h * BytesOf(f.Out)),
                   StableImage(d, k[1], Size(d) + k[2], 0), NilRect)

\* The caller calls Process again on the same image with the same filter:
\* on the whole image or on an ROI, in place again or into a fresh
\* destination of the same length.
Again ==
    /\ pc = "done"
    /\ phase = 1
    /\ \E r \in {NilRect} \cup ValidRects(pa.src.dims.Width, pa.src.dims.Height) :
        pa' = [pa EXCEPT !.roi = r]
    /\ prev' = [ret |-> ret, roi |-> pa.roi, dst |-> mem.dst, src |-> mem.src,
                srcDims |-> pa.src.dims]
    /\ mem' = [mem EXCEPT !.dst = [k \in 1..Len(@) |-> 170], !.row = <<>>]
    /\ phase' = 2
    /\ pc' = "idle"
    /\ loc' = IdleLoc
    /\ ret' = NoRet
    /\ log' = <<>>
    /\ UNCHANGED <<gpuVars, ctl, vd, va>>

\* The caller takes the output of a successful call as a new image, with
\* the Dims Process returned, of the same kind as the first source, and
\* calls Process on it with the same filter and a fresh destination.
Feed ==
    /\ pc = "done"
    /\ phase = 1
    /\ ret.err = "none"
    /\ pa.dst # NilSlice
    /\ pa' = [pa EXCEPT !.src = StableImage(ret.dims, pa.src.kind, Len(mem.dst), 0),
                        !.roi = NilRect]
    /\ prev' = [ret |-> ret, roi |-> pa.roi, dst |-> mem.dst, src |-> mem.src,
                srcDims |-> pa.src.dims]
    /\ mem' = [src |-> mem.dst, dst |-> [k \in 1..Len(mem.dst) |-> 170], row |-> <<>>]
    /\ phase' = 3
    /\ pc' = "idle"
    /\ loc' = IdleLoc
    /\ ret' = NoRet
    /\ log' = <<>>
    /\ UNCHANGED <<gpuVars, ctl, vd, va>>

InitProcIdle ==
    /\ pa = [f |-> [In |-> shapeUndefined, Out |-> shapeUndefined, Fn |-> "nil"],
             dst |-> NilSlice, src |-> IdleImage, roi |-> NilRect]
    /\ mem = [src |-> <<>>, dst |-> <<>>, row |-> <<>>]
    /\ pc = "off"
    /\ loc = IdleLoc
    /\ ret = NoRet
    /\ log = <<>>
    /\ prev = NoPrev
    /\ phase = 0

InitValidate ==
    /\ IdleGpu
    /\ ctl = IdleCtl
    /\ vd \in { [d |-> d, called |-> FALSE, err |-> "none"] : d \in ValidateInputs }
    /\ va = IdleVa
    /\ InitProcIdle

NextValidate == CallValidate

SpecValidate == InitValidate /\ [][NextValidate]_vars

InitArgs ==
    /\ IdleGpu
    /\ ctl = IdleCtl
    /\ vd = IdleVd
    /\ (ArgsRoiFamily(va) \/ ArgsDstFamily(va))
    /\ InitProcIdle

NextArgs == CallValidateProcessArgs

SpecArgs == InitArgs /\ [][NextArgs]_vars

InitProc ==
    /\ IdleGpu
    /\ ctl = IdleCtl
    /\ vd = IdleVd
    /\ va = IdleVa
    /\ (ProcValidFamily(pa) \/ ProcBadFamily(pa) \/ ProcUnstableFamily(pa)
            \/ ProcFullDstFamily(pa))
    /\ mem = InitMem(pa)
    /\ pc = "idle"
    /\ loc = IdleLoc
    /\ ret = NoRet
    /\ log = <<>>
    /\ prev = NoPrev
    /\ phase = 1

Next == Begin \/ Row \/ Finish

Spec == InitProc /\ [][Next]_vars

InitPair ==
    /\ IdleGpu
    /\ ctl = IdleCtl
    /\ vd = IdleVd
    /\ va = IdleVa
    /\ PairFamily(pa)
    /\ mem = InitMem(pa)
    /\ pc = "idle"
    /\ loc = IdleLoc
    /\ ret = NoRet
    /\ log = <<>>
    /\ prev = NoPrev
    /\ phase = 1

NextPair == Begin \/ Row \/ Finish \/ Again \/ Feed

SpecPair == InitPair /\ [][NextPair]_vars

\* --------------------------------------- one image, two kinds of source
\* The ways an image's bytes are offered: a buffer, an ImageBuffered whose
\* Buffer() is nil, a plain Image, and a plain Image whose ReadAt returns
\* io.EOF together with the last bytes of the data.
AccessKinds == {<<"buf", 0>>, <<"bufnil", 0>>, <<"stream", 0>>, <<"stream", -1>>}

KindsFamily(a) ==
    \E f \in Filters, w \in 1..MaxW, h \in 1..MaxH, pad \in 0..MaxPad, k \in AccessKinds :
    \E roi \in {NilRect} \cup ValidRects(w, h) :
        LET d == SrcDims(w, h, pad, f.In)
            need == IF roi.nil THEN w * h * BytesOf(f.Out)
                    ELSE Dx(roi) * Dy(roi) * BytesOf(f.Out)
        IN  a = MkCall(f, DstOf(need), StableImage(d, k[1], Size(d), k[2]), roi)

\* The caller offers the same bytes with the same Dims through another
\* kind of source and calls Process again with the same filter and ROI and
\* a fresh destination of the same length.
Rewrap ==
    /\ pc = "done"
    /\ phase = 1
    /\ \E k \in AccessKinds :
        pa' = [pa EXCEPT !.src = StableImage(pa.src.dims, k[1], pa.src.blen, k[2])]
    /\ prev' = [ret |-> ret, roi |-> pa.roi, dst |-> mem.dst, src |-> mem.src,
                srcDims |-> pa.src.dims]
    /\ mem' = [mem EXCEPT !.dst = [k \in 1..Len(@) |-> 170], !.row = <<>>]
    /\ phase' = 4
    /\ pc' = "idle"
    /\ loc' = IdleLoc
    /\ ret' = NoRet
    /\ log' = <<>>
    /\ UNCHANGED <<gpuVars, ctl, vd, va>>

InitKinds ==
    /\ vd = IdleVd
    /\ va = IdleVa
    /\ IdleGpu
    /\ ctl = IdleCtl
    /\ KindsFamily(pa)
    /\ mem = InitMem(pa)
    /\ pc = "idle"
    /\ loc = IdleLoc
    /\ ret = NoRet
    /\ log = <<>>
    /\ prev = NoPrev
    /\ phase = 1

NextKinds == Begin \/ Row \/ Finish \/ Rewrap

SpecKinds == InitKinds /\ [][NextKinds]_vars

\* ------------------------------------- shapes of at least 8 bits per pixel
WholeByteShapes == {ShapeRGB888, ShapeRGBA8888, ShapeRGB565BE, ShapeRGB555, ShapeRGB444BE}

\* A caller's filter from each shape of at least 8 bits per pixel, on valid
\* images of up to MaxW pixels per row and of 8 pixels per row, whole or
\* with an ROI, buffered and streamed, into a destination of the output's
\* size.
ShapesFamily(a) ==
    \E in \in WholeByteShapes, w \in (1..MaxW) \cup {8}, h \in 1..MaxH, pad \in 0..MaxPad :
    \E kind \in {"buf", "stream"} :
    \E roi \in {NilRect, MkRect(w - 1, 0, w, 1)} \cup (IF w <= MaxW THEN ValidRects(w, h) ELSE {}) :
        LET f == NewRepack(in, ShapeRGB565BE)
            d == SrcDims(w, h, pad, in)
            need == IF roi.nil THEN w * h * BytesOf(f.Out)
                    ELSE Dx(roi) * Dy(roi) * BytesOf(f.Out)
        IN  a = MkCall(f, DstOf(need), StableImage(d, kind, Size(d), 0), roi)

InitShapes ==
    /\ vd = IdleVd
    /\ va = IdleVa
    /\ IdleGpu
    /\ ctl = IdleCtl
    /\ ShapesFamily(pa)
    /\ mem = InitMem(pa)
    /\ pc = "idle"
    /\ loc = IdleLoc
    /\ ret = NoRet
    /\ log = <<>>
    /\ prev = NoPrev
    /\ phase = 1

SpecShapes == InitShapes /\ [][Next]_vars

\* ------------------------------------------- the grayscale filter, callers
\* Channel values at the ends and in the middle of a byte's range.
ChannelValues == {0, 1, 127, 128, 254, 255}

\* A row of two pixels (r, g, b) and (b, r, g), buffered or streamed, given
\* to the grayscale filter in each of its modes.
InitGray ==
    /\ vd = IdleVd
    /\ va = IdleVa
    /\ IdleGpu
    /\ ctl = IdleCtl
    /\ \E mode \in {GrayscaleLuminance, GrayscaleAverage, GrayscaleLightness} :
       \E kind \in {"buf", "stream"} :
        pa = MkCall(NewGrayscalePerPixel(mode), DstOf(6),
                    StableImage(SrcDims(2, 1, 0, ShapeRGB888), kind, 6, 0), NilRect)
    /\ \E r \in ChannelValues, g \in ChannelValues, b \in ChannelValues :
        mem = [src |-> <<r, g, b, b, r, g>>, dst |-> [k \in 1..6 |-> 170], row |-> <<>>]
    /\ pc = "idle"
    /\ loc = IdleLoc
    /\ ret = NoRet
    /\ log = <<>>
    /\ prev = NoPrev
    /\ phase = 1

SpecGray == InitGray /\ [][Next]_vars

\* ------------------------------------------------ PointFilterGPU, its callers
\* How far the device's f32 quotient lies from the correctly rounded one.
DivUlps == {-1, 0, 1}

\* The device call that fails during one Process call.
GpuFailures == {"none", "input buffer", "output buffer", "dispatch", "readback"}

\* The caller's images: one pixel, two pixels, none.
CallerImages(p) ==
    <<[w |-> 1, h |-> 1, Pix |-> p],
      [w |-> 2, h |-> 1, Pix |-> <<122, 159, 196, 233, 14, 0, 255, 128>>],
      [w |-> 0, h |-> 0, Pix |-> <<>>]>>

\* The last Process call handed the device a buffer or image it did not hold.
Aborted == gcalls # <<>> /\ gcalls[Len(gcalls)].abort

GpuInitCall ==
    /\ gn < MaxGpuOps
    /\ ~Aborted
    /\ \E ok \in BOOLEAN : gf' = GpuInit(gf, ok)
    /\ gn' = gn + 1
    /\ UNCHANGED <<heap, gcalls, results, ctl, vd, va, procVars>>

\* Process on any image the caller holds: its own or an earlier result.
GpuProcessCall ==
    /\ gn < MaxGpuOps
    /\ ~Aborted
    /\ \E id \in 1..Len(heap), fail \in GpuFailures :
        LET r == GpuProcess(gf, heap, id, fail) IN
        /\ gf' = r.g
        /\ heap' = r.heap
        /\ gcalls' = IF Len(gcalls) = 2 THEN <<gcalls[2], r.call>> ELSE Append(gcalls, r.call)
        /\ results' = IF r.call.ret # 0
                       THEN Append(results, [id |-> r.call.ret, pix |-> r.call.pix])
                       ELSE results
    /\ gn' = gn + 1
    /\ UNCHANGED <<ctl, vd, va, procVars>>

GpuCleanupCall ==
    /\ gn < MaxGpuOps
    /\ ~Aborted
    /\ gf' = Cleanup(gf)
    /\ gn' = gn + 1
    /\ UNCHANGED <<heap, gcalls, results, ctl, vd, va, procVars>>

InitGPU ==
    /\ vd = IdleVd
    /\ va = IdleVa
    /\ InitProcIdle
    /\ ctl = IdleCtl
    /\ \E dev \in DivUlps : gf = NewPointFilterGPU(dev)
    /\ \E p \in {<<11, 48, 85, 255>>, <<0, 255, 128, 0>>} : heap = CallerImages(p)
    /\ gcalls = <<>>
    /\ results = <<>>
    /\ gn = 0

NextGPU == GpuInitCall \/ GpuProcessCall \/ GpuCleanupCall

SpecGPU == InitGPU /\ [][NextGPU]_vars

\* ------------------------------------------------------ Controls, callers
Controls ==
    { MkControl("ordered", v, lo, hi, <<>>) : v \in 0..MaxVal, lo \in 0..MaxVal, hi \in 0..MaxVal }
    \cup { MkControl("enum", v, 0, 0, vv) : v \in 0..MaxVal,
                                            vv \in {<<>>, <<0>>, <<0, MaxVal>>, <<1, MaxVal, 1>>} }

\* What a caller passes: a T from one below zero to one above MaxVal, or a
\* value of another type.
NewValues == { AnyValue(TRUE, v) : v \in -1..(MaxVal + 1) } \cup {AnyValue(FALSE, 0)}

CallChangeValue ==
    /\ ctl.n < MaxChanges
    /\ \E nv \in NewValues, oe \in {"none", "OnChange failed"} :
        LET r == ChangeValue(ctl.c, nv, oe) IN
        ctl' = [c |-> r.c, init |-> ctl.init,
                ok |-> IF r.err = "none" THEN <<nv.v>> ELSE ctl.ok,
                n |-> ctl.n + 1,
                last |-> [arg |-> nv, err |-> r.err, called |-> r.called,
                          before |-> ActualValue(ctl.c), onChangeErr |-> oe]]
    /\ UNCHANGED <<gpuVars, vd, va, procVars>>

InitControls ==
    /\ vd = IdleVd
    /\ va = IdleVa
    /\ InitProcIdle
    /\ IdleGpu
    /\ \E c \in Controls :
        ctl = [c |-> c, init |-> ActualValue(c), ok |-> <<>>, n |-> 0, last |-> NoChange]

NextControls == CallChangeValue

SpecControls == InitControls /\ [][NextControls]_vars

\* C1: Dims.Validate returns nil exactly when Width > 0, Height > 0,
\* BitsPerPixel(Shape) >= 1 and Stride*8 >= Width*BitsPerPixel(Shape), for
\* every Dims including unrecognized shapes and non-positive fields.
C1_ValidateIff ==
    vd.called =>
        ((vd.err = "none") <=>
            (/\ vd.d.Width > 0
             /\ vd.d.Height > 0
             /\ BitsPerPixel(vd.d.Shape) >= 1
             /\ vd.d.Stride * 8 >= vd.d.Width * BitsPerPixel(vd.d.Shape)))

\* A Validate call that accepted a padded row of a 15-bit shape, whose row
\* size is not a whole number of pixels' bytes.
C1_Witness ==
    /\ vd.called
    /\ vd.err = "none"
    /\ vd.d.Shape = ShapeRGB555
    /\ vd.d.Width = MaxDim
    /\ vd.d.Stride * 8 > vd.d.Width * 15

\* C3: an in-place request (dst == nil) is rejected when an ROI is given,
\* when the destination shape differs from the source's, when the source is
\* not an ImageBuffered, when Buffer() is nil or when it is shorter than
\* Size(); when it is accepted the returned destination is the source's
\* own buffer: the same array, from its first byte, with its length.
C3_InPlaceDispatch ==
    (va.called /\ va.dst = NilSlice) =>
        /\ ( \/ ~va.roi.nil
             \/ va.dstShape.Shape # va.src.dims.Shape
             \/ va.src.kind = "stream"
             \/ va.src.kind = "bufnil"
             \/ va.src.blen < Size(va.src.dims) ) => va.out.err # "none"
        /\ va.out.err = "none" =>
             /\ va.out.dst.ref = "src"
             /\ va.out.dst.off = 0
             /\ va.out.dst.len = va.src.blen

\* An accepted in-place request on a buffer longer than the image needs.
C3_Witness ==
    /\ va.called
    /\ va.dst = NilSlice
    /\ va.out.err = "none"
    /\ va.out.dst.ref = "src"
    /\ va.src.blen > Size(va.src.dims)
    /\ va.src.dims.Stride > SizeRow(va.src.dims)

\* C4: with valid source Dims and an ROI, ValidateProcessArgs succeeds only
\* for 0 <= Min.X < Max.X <= Width and 0 <= Min.Y < Max.Y <= Height; an ROI
\* with a negative coordinate, beyond the image or empty is rejected with an
\* error and a nil destination.
C4_RoiChecked ==
    (va.called /\ Validate(va.src.dims) = "none" /\ ~va.roi.nil) =>
        LET r == va.roi
            inside == /\ 0 <= r.MinX /\ r.MinX < r.MaxX /\ r.MaxX <= va.src.dims.Width
                      /\ 0 <= r.MinY /\ r.MinY < r.MaxY /\ r.MaxY <= va.src.dims.Height
        IN  /\ va.out.err = "none" => inside
            /\ ~inside => (va.out.err # "none" /\ va.out.dst = NilSlice)

\* An accepted ROI that is a proper part of the image, away from its origin.
C4_Witness ==
    /\ va.called
    /\ va.out.err = "none"
    /\ ~va.roi.nil
    /\ va.roi.MinX = 1 /\ va.roi.MinY = 1
    /\ va.roi.MaxX = va.src.dims.Width /\ va.roi.MaxY = va.src.dims.Height

\* C5: ValidateProcessArgs fails whenever the resolved destination (the
\* supplied dst, or the source's buffer for in-place) is shorter than
\* dstShape.Stride * roi.Dy() (ROI) or dstShape.Stride * dstShape.Height (no
\* ROI); with dstShape.Stride = 0 no supplied dst is rejected for its size.
C5_DstSize ==
    va.called =>
        LET required == IF va.roi.nil THEN va.dstShape.Stride * va.dstShape.Height
                        ELSE va.dstShape.Stride * (va.roi.MaxY - va.roi.MinY)
            resolved == IF va.dst # NilSlice THEN va.dst.len
                        ELSE IF va.src.kind = "buf" THEN va.src.blen ELSE 0
        IN  /\ resolved < required => va.out.err # "none"
            /\ (va.dstShape.Stride = 0 /\ va.dst # NilSlice) =>
                   va.out.err # "destination buffer not large enough to store output"

\* A zero-length, non-nil destination accepted because the stride is 0.
C5_Witness ==
    /\ va.called
    /\ va.dst # NilSlice
    /\ va.dst.len = 0
    /\ va.dstShape.Stride = 0
    /\ va.dstShape.Height > 0
    /\ va.out.err = "none"

\* --------------------------------------------------------- Process claims
\* The image always answers Dims() with the same value.
StableDims == pa.src.dims = pa.src.next

ByteMultiple(sh) == BitsPerPixel(sh) >= 8 /\ BitsPerPixel(sh) % 8 = 0

\* C2: in-place invert (dst = nil, roi = nil) of a buffer-backed RGB888
\* image with valid Dims, any stride >= the row size and a buffer of at
\* least Size() bytes succeeds and replaces every pixel byte at offset
\* y*Stride + i (i < SizeRow) by 255 minus its original value; a second
\* call restores the buffer's original bytes.
C2_InPlaceInvert ==
    (pa.f.Fn = "invert" /\ pa.dst = NilSlice /\ pa.roi.nil /\ pa.src.kind = "buf") =>
        LET d == pa.src.dims
            orig == SrcBytes(pa.src.blen)
        IN  /\ pc # "panic"
            /\ pc = "done" =>
                /\ ret.err = "none"
                /\ phase = 1 =>
                    \A y \in 0..(d.Height - 1), i \in 0..(3 * d.Width - 1) :
                        mem.src[y * d.Stride + i + 1] = 255 - orig[y * d.Stride + i + 1]
                /\ phase = 2 => mem.src = orig

\* C6: for a valid source of a byte-multiple shape and a valid ROI R, output
\* pixel (x - R.Min.X, y - R.Min.Y) of Process(dst, src, &R) equals output
\* pixel (x, y) of Process(dst2, src, nil) on the whole image, for every
\* (x, y) in R.
C6_RoiConsistency ==
    (/\ phase = 2 /\ pc = "done" /\ ret.err = "none" /\ prev.ret.err = "none"
     /\ ~pa.roi.nil /\ pa.dst # NilSlice) =>
        LET b == (BitsPerPixel(pa.f.Out) + 7) \div 8 IN
        \A x \in pa.roi.MinX..(pa.roi.MaxX - 1), y \in pa.roi.MinY..(pa.roi.MaxY - 1), c \in 0..(b - 1) :
            mem.dst[(y - pa.roi.MinY) * ret.dims.Stride + (x - pa.roi.MinX) * b + c + 1]
                = prev.dst[y * prev.ret.dims.Stride + x * b + c + 1]

\* The ROI run took the last pixel of a padded, streamed image of more than
\* one row and column, after a whole-image run, and wrote its output.
C6_Witness ==
    /\ phase = 2
    /\ pc = "done"
    /\ ret.err = "none"
    /\ prev.ret.err = "none"
    /\ pa.dst # NilSlice
    /\ ~pa.roi.nil
    /\ pa.roi.MinX = 1 /\ pa.roi.MinY = 1
    /\ pa.src.kind = "stream"
    /\ pa.src.dims.Stride > SizeRow(pa.src.dims)
    /\ pa.f.Fn = "grayscale"
    /\ mem.dst[1] = prev.dst[Len(prev.dst)]
    /\ mem.dst[1] # 170

\* C7: for byte-multiple In and Out shapes, whatever the source (valid or
\* not, streamed or buffered, even with a Buffer() shorter than Size()),
\* ROI and dst length, Process returns or fails with an error: it never
\* slices or indexes out of range.
C7_NoAbort ==
    (StableDims /\ ByteMultiple(pa.f.In) /\ ByteMultiple(pa.f.Out)) => pc # "panic"

\* C8: on success Process returns the ROI's (or else the source's) width
\* and height, Stride = Width * ceil(BitsPerPixel(Out)/8) and the filter's
\* output shape; on every error it returns the zero Dims.
C8_ReturnedDims ==
    (pc = "done" /\ StableDims) =>
        LET w == IF pa.roi.nil THEN pa.src.dims.Width ELSE pa.roi.MaxX - pa.roi.MinX
            h == IF pa.roi.nil THEN pa.src.dims.Height ELSE pa.roi.MaxY - pa.roi.MinY
        IN  IF ret.err = "none"
            THEN /\ ret.dims.Width = w
                 /\ ret.dims.Height = h
                 /\ ret.dims.Stride = w * ((BitsPerPixel(pa.f.Out) + 7) \div 8)
                 /\ ret.dims.Shape = pa.f.Out
            ELSE ret.dims = [Width |-> 0, Height |-> 0, Stride |-> 0, Shape |-> 0]

\* A successful call on an ROI narrower than the image, with an output
\* shape wider than the input shape.
C8_Witness ==
    /\ pc = "done"
    /\ ret.err = "none"
    /\ ~pa.roi.nil
    /\ pa.roi.MinX = 1
    /\ pa.roi.MaxX - pa.roi.MinX < pa.src.dims.Width
    /\ pa.f.In = ShapeRGB565BE
    /\ pa.f.Out = ShapeRGBA8888
    /\ ret.dims.Stride = 4

\* C9: on a source without a buffer Process reads each row once, rows
\* startY, startY+1, ... in ascending order, at offset y*Stride into a
\* buffer of SizeRow bytes, and transforms each row right after its read;
\* a read that is short or fails is the last thing Process does: it returns
\* that read's error, and the rows of dst written so far keep what was
\* written while the others are untouched.
C9_StreamedReads ==
    (StableDims /\ pa.src.kind # "buf") =>
        LET d == pa.src.dims
            startY == IF pa.roi.nil THEN 0 ELSE pa.roi.MinY
            startX == IF pa.roi.nil THEN 0 ELSE pa.roi.MinX
            nFn == Cardinality({ k \in 1..Len(log) : log[k].op = "Fn" })
        IN  /\ \A k \in 1..Len(log) :
                /\ log[k].op = "ReadAt" =>
                    /\ log[k].y = startY + Cardinality({ i \in 1..(k - 1) : log[i].op = "ReadAt" })
                    /\ log[k].off = log[k].y * d.Stride
                    /\ log[k].len = (d.Width * BitsPerPixel(d.Shape) + 7) \div 8
                    /\ log[k].err = "none" =>
                        (k < Len(log) /\ log[k + 1].op = "Fn" /\ log[k + 1].y = log[k].y)
                    /\ log[k].err # "none" =>
                        /\ k = Len(log)
                        /\ pc = "done"
                        /\ ret.err = log[k].err
                        /\ ret.dims = [Width |-> 0, Height |-> 0, Stride |-> 0, Shape |-> 0]
                /\ log[k].op = "Fn" =>
                    (k > 1 /\ log[k - 1].op = "ReadAt" /\ log[k - 1].y = log[k].y
                           /\ log[k - 1].err = "none")
            /\ (pc = "done" /\ ret.err \in {"read failed", "EOF"} /\ pa.f.Fn = "invert") =>
                LET w == IF pa.roi.nil THEN d.Width ELSE pa.roi.MaxX - pa.roi.MinX IN
                \A k \in 1..Len(mem.dst) :
                    mem.dst[k] =
                        IF k - 1 < nFn * 3 * w
                        THEN 255 - mem.src[(startY + (k - 1) \div (3 * w)) * d.Stride
                                           + 3 * startX + ((k - 1) % (3 * w)) + 1]
                        ELSE 170

\* The read of the second row failed after the first row was read and
\* inverted into dst: the first row's bytes are there, the rest untouched.
C9_Witness ==
    /\ pc = "done"
    /\ ret.err = "read failed"
    /\ Len(log) = 3
    /\ pa.f.Fn = "invert"
    /\ ~pa.roi.nil
    /\ pa.roi.MinX = 1
    /\ pa.src.dims.Stride > 3 * pa.src.dims.Width
    /\ mem.dst[1] = 255 - mem.src[4]
    /\ mem.dst[Len(mem.dst)] = 170

\* C10: the source Dims from which Process computes row offsets, the row
\* size and the iteration bounds is the value that passed Dims.Validate in
\* this call, also for an image whose Dims() answers change.
C10_RowsFromValidatedDims ==
    pc = "loop" => loc.srcDims = loc.validated

\* C11: with a supplied destination (which is another array than the
\* source's), Process never changes a byte of the source, never changes a
\* byte of dst at or beyond outStride*outHeight, and changes no byte of dst
\* when it fails before the row loop (nil transform, shape mismatch,
\* validation error).
C11_Frame ==
    (phase = 1 /\ pa.dst # NilSlice) =>
        LET out == OutDims(pa.f, pa.src.dims, pa.roi) IN
        /\ mem.src = SrcBytes(pa.src.blen)
        /\ Len(mem.dst) = pa.dst.len
        /\ \A k \in 1..Len(mem.dst) : k > out.Stride * out.Height => mem.dst[k] = 170
        /\ (pc = "done" /\ ret.err # "none" /\ log = <<>>) =>
               \A k \in 1..Len(mem.dst) : mem.dst[k] = 170

\* A successful call on an ROI below the first row, into a destination with
\* room beyond the output: the output's first byte is written, the source
\* and the last byte of dst are as they were.
C11_Witness ==
    /\ pc = "done"
    /\ ret.err = "none"
    /\ pa.dst # NilSlice
    /\ ~pa.roi.nil
    /\ pa.roi.MinY = 1
    /\ Len(mem.dst) >= 2 * ret.dims.Stride * ret.dims.Height
    /\ mem.dst[1] # 170
    /\ mem.dst[Len(mem.dst)] = 170
    /\ mem.src = SrcBytes(pa.src.blen)

\* C12: inverting an RGB888 image and then inverting the output image gives
\* back the original pixel bytes (pixel byte i of row y of the result equals
\* byte y*Stride + i of the original); and for the GPU invert filter, when
\* Process is called on the image the previous Process call returned, the
\* result has the Pix bytes of the previous call's argument.
C12_RoundTrip ==
    /\ (phase = 3 /\ pa.f.Fn = "invert") =>
          /\ pc # "panic"
          /\ pc = "done" =>
              /\ ret.err = "none"
              /\ \A y \in 0..(prev.srcDims.Height - 1), i \in 0..(3 * prev.srcDims.Width - 1) :
                    mem.dst[y * 3 * prev.srcDims.Width + i + 1]
                        = prev.src[y * prev.srcDims.Stride + i + 1]
    /\ (Len(gcalls) = 2 /\ gcalls[1].ret # 0 /\ gcalls[2].ret # 0
            /\ gcalls[2].in = gcalls[1].ret) =>
          gcalls[2].pix = gcalls[1].inPix

\* C13: once Process has started, a filter without Fn has returned the
\* nil-transform error, and otherwise a source whose shape is not the
\* filter's input shape has made it return the shape-mismatch error,
\* whatever the source's Dims, the ROI and dst are; in both cases Process
\* called neither Buffer() nor ReadAt.
C13_ErrorPrecedence ==
    pc \in {"loop", "done", "panic"} =>
        /\ pa.f.Fn = "nil" =>
              (pc = "done" /\ ret.err = "nil PixelFunc" /\ log = <<>>)
        /\ (pa.f.Fn # "nil" /\ pa.src.dims.Shape # pa.f.In) =>
              (pc = "done" /\ ret.err = "pixel shape mismatch" /\ log = <<>>)

\* A shape mismatch reported for an in-place call on a buffered source
\* whose Dims are sound, with an ROI that validation would reject twice
\* over (negative, and in-place).
C13_Witness ==
    /\ pc = "done"
    /\ ret.err = "pixel shape mismatch"
    /\ pa.dst = NilSlice
    /\ pa.src.kind = "buf"
    /\ Validate(pa.src.dims) = "none"
    /\ ~pa.roi.nil
    /\ pa.roi.MinX < 0
    /\ log = <<>>

\* C14: for each grayscale mode and each RGB888 input pixel the filter
\* writes an output pixel whose three bytes are equal; in luminance mode the
\* byte is (77*R + 150*G + 29*B) >> 8, which lies in 0..255.
C14_Grayscale ==
    (pc = "done" /\ pa.f.Fn = "grayscale") =>
        /\ ret.err = "none"
        /\ \A k \in 0..(pa.src.dims.Width - 1) :
            LET R == mem.src[3 * k + 1]
                G == mem.src[3 * k + 2]
                B == mem.src[3 * k + 3]
                lum == (77 * R + 150 * G + 29 * B) \div 256
            IN  /\ mem.dst[3 * k + 1] = mem.dst[3 * k + 2]
                /\ mem.dst[3 * k + 2] = mem.dst[3 * k + 3]
                /\ mem.dst[3 * k + 1] \in 0..255
                /\ lum \in 0..255
                /\ pa.f.mode = GrayscaleLuminance => mem.dst[3 * k + 1] = lum

\* The luminance of a saturated red pixel with some blue, 91, written to
\* all three bytes.
C14_Witness ==
    /\ pc = "done"
    /\ pa.f.Fn = "grayscale"
    /\ pa.f.mode = GrayscaleLuminance
    /\ mem.src[1] = 255 /\ mem.src[2] = 0 /\ mem.src[3] = 128
    /\ mem.dst[1] = 91 /\ mem.dst[2] = 91 /\ mem.dst[3] = 91

\* C15: a ChangeValue call with a value of the wrong type, outside
\* [Min, Max] (ControlOrdered) or not among ValidValues (ControlEnum)
\* returns an error without calling OnChange and leaves ActualValue as it
\* was; so does a call whose OnChange returns an error; a call that returns
\* nil makes ActualValue the new value.  After any calls ActualValue is the
\* initial value or the argument of the last call that returned nil.
C15_ChangeValue ==
    ctl.n > 0 =>
        LET l == ctl.last
            c == ctl.c
            refused ==
                \/ ~l.arg.typed
                \/ c.kind = "ordered" /\ (l.arg.v < c.Min \/ l.arg.v > c.Max)
                \/ c.kind = "enum" /\ l.arg.v \notin { c.ValidValues[i] : i \in 1..Len(c.ValidValues) }
        IN  /\ refused => (l.err # "none" /\ ~l.called /\ ActualValue(c) = l.before)
            /\ (~refused /\ l.onChangeErr # "none") =>
                  (l.err # "none" /\ ActualValue(c) = l.before)
            /\ l.err = "none" => ActualValue(c) = l.arg.v
            /\ ActualValue(c) = IF ctl.ok = <<>> THEN ctl.init ELSE ctl.ok[1]

\* After a call that set a value other than the initial one, a call with
\* an admissible value whose OnChange failed: the earlier value stays.
C15_Witness ==
    /\ ctl.n = MaxChanges
    /\ ctl.c.kind = "ordered"
    /\ ctl.ok # <<>>
    /\ ctl.ok[1] # ctl.init
    /\ ctl.last.called
    /\ ctl.last.err = "OnChange failed"
    /\ ctl.last.arg.v # ctl.ok[1]
    /\ ActualValue(ctl.c) = ctl.ok[1]

\* C16: every image PointFilterGPU.Process returns has the size of its
\* argument and is another object than every image an earlier Process call
\* on the filter returned; the pixels of an earlier result stay what they
\* were when it was returned.
C16_NewBuffer ==
    /\ \A i \in 1..Len(gcalls) :
          gcalls[i].ret # 0 =>
              /\ heap[gcalls[i].ret].w = gcalls[i].w
              /\ heap[gcalls[i].ret].h = gcalls[i].h
              /\ Len(gcalls[i].pix) = Len(gcalls[i].inPix)
    /\ \A i \in 1..Len(results) :
          /\ heap[results[i].id].Pix = results[i].pix
          /\ \A j \in (i + 1)..Len(results) : results[j].id # results[i].id

\* C17: for the same bytes, valid Dims, ROI and supplied dst, Process ends
\* with a nil error and with the same dst bytes and the same Dims whether
\* the source has a buffer, has a nil Buffer() or is a plain Image whose
\* ReadAt delivers every row in full; a source with a buffer is never
\* read through ReadAt, any other is read once per row; and an
\* ImageBuffered is asked for its buffer once in every call.
C17_KindsEquivalent ==
    /\ pc # "panic"
    /\ pc = "done" =>
          /\ ret.err = "none"
          /\ NumReads(log) = IF pa.src.kind = "buf" THEN 0 ELSE ret.dims.Height
          /\ Cardinality({ k \in 1..Len(log) : log[k].op = "Buffer" })
                = IF pa.src.kind = "stream" THEN 0 ELSE 1
          /\ phase = 4 => (ret = prev.ret /\ mem.dst = prev.dst /\ mem.src = prev.src)

\* C18: for an input shape of at least 8 bits per pixel (RGB555 and
\* RGB444BE among them), valid Dims and a valid or no ROI, the X-range
\* [startX*B, endX*B), B = ceil(BitsPerPixel(In)/8), that Process slices from
\* each source row lies within the row's SizeRow() bytes, and the slicing
\* does not fail.
C18_XRangeInRow ==
    /\ pc = "loop" =>
          /\ 0 <= loc.startX * ((BitsPerPixel(pa.f.In) + 7) \div 8)
          /\ loc.endX * ((BitsPerPixel(pa.f.In) + 7) \div 8)
                <= (pa.src.dims.Width * BitsPerPixel(pa.f.In) + 7) \div 8
    /\ pc # "panic"

\* C19: after any sequence of Init, Process (failing ones and ones on a 0x0
\* image included) and Cleanup, whenever Process gets past ensureBuffers(w, h)
\* to the upload, the input buffer, the output buffer and the output image
\* exist and are sized for w*h*4 bytes.
C19_BufferCache ==
    \A i \in 1..Len(gcalls) :
        gcalls[i].past =>
            /\ ~gcalls[i].inputBuffer.nil
            /\ gcalls[i].inputBuffer.size = gcalls[i].w * gcalls[i].h * 4
            /\ ~gcalls[i].outputBuffer.nil
            /\ gcalls[i].outputBuffer.size = gcalls[i].w * gcalls[i].h * 4
            /\ gcalls[i].outputImage # 0
            /\ heap[gcalls[i].outputImage].w = gcalls[i].w
            /\ heap[gcalls[i].outputImage].h = gcalls[i].h
            /\ ~gcalls[i].abort
====
